---- MODULE Spec2Model ----
(***************************************************************************)
(* A model of the fixed-size-block memory pool MemoryPool<T, BlockSize>.   *)
(* Two variants of the class live in the repository: the base one          *)
(* (code/base) and the teaching one (background/.../C-11-Teach), which     *)
(* adds copy construction, allocate(n), available() and used() and whose   *)
(* destructor does not reset the members.  Addresses are byte addresses,   *)
(* NULL is 0.  The memory `mem` holds the link words the pool writes: the  *)
(* first word of every block and the `next` member of every freed slot.    *)
(***************************************************************************)
EXTENDS Integers, Sequences, FiniteSets, TLC

\* ------------------------------------------------------------------ bounds
HeapEnd == 72        \* the system allocator serves blocks inside [PtrSize, HeapEnd)
MaxLive == 3         \* the callers hold at most this many addresses at a time
MaxN == 2            \* the largest n a caller passes to allocate(n, hint)
MaxLost == 1         \* at most this many constructors throw inside newElement
ScriptLen == 3       \* the length of the call sequences replayed on a moved pool
MaxAddress == 40     \* the largest address calculatePadding is applied to on its own
MaxAlignment == 12   \* the largest alignment calculatePadding is applied to on its own

\* ------------------------------------------------------- program constants
NULL == 0            \* nullptr
PtrSize == 8         \* sizeof(slot_pointer)
TraversalCap == 1000 \* the "safety limit" of available() and used()

Pools == {"A", "B"}
Variants == {"base", "teach"}

\* The element types of the model, as (sizeof, alignof).
ElemTypes ==
  { [size |-> 4, align |-> 4],
    [size |-> 16, align |-> 8],
    [size |-> 16, align |-> 16] }

BlockSizes == {15, 16, 17, 24, 32, 40}

Max(a, b) == IF a >= b THEN a ELSE b

RoundUp(n, a) == ((n + a - 1) \div a) * a

\* union Slot { value_type element; Slot* next; }
alignofSlot(c) == Max(c.T.align, PtrSize)

sizeofSlot(c) == RoundUp(Max(c.T.size, PtrSize), alignofSlot(c))

\* A wrong static_assert: one slot width is enough.
StaticAssertOK_OneSlot(c) == c.BS >= sizeofSlot(c)

\* static_assert(BlockSize >= 2 * sizeof(slot_type))
StaticAssertOK(c) == c.BS >= 2 * sizeofSlot(c)

\* The instantiations MemoryPool<T, BlockSize> a program may write down.
Instantiations == [T : ElemTypes, BS : BlockSizes]

\* The instantiations MemoryPool<T, BlockSize> that compile.
Configs == { c \in Instantiations : StaticAssertOK(c) }

Cfg(size, align, bs) == [T |-> [size |-> size, align |-> align], BS |-> bs]

\* The programs of the model: each instantiates the pool for an element type
\* T and, for the converting constructor, for another element type U.
Programs ==
  { [T |-> Cfg(4, 4, 24), U |-> Cfg(16, 16, 32)],
    [T |-> Cfg(16, 16, 32), U |-> Cfg(4, 4, 16)],
    [T |-> Cfg(16, 8, 40), U |-> Cfg(4, 4, 32)] }

\* The strictest slot alignment of the model.
MaxAlign == 2 * PtrSize

\* --------------------------------------------------------------- variables
VARIABLES
  variant,   \* which of the two class definitions the program includes
  status,    \* per pool object: "none" (not constructed), "alive", "dead"
  types,     \* the two instantiations of the program, T and U
  ty,        \* per pool object: which instantiation it is, "T" or "U"
  pool,      \* per pool object: currentBlock, currentSlot, lastSlot, freeSlots
  mem,       \* the link words written by the pools: address -> address
  heap,      \* the system allocator: blocks handed out and not yet deleted
  live,      \* per pool object: the addresses its callers currently hold
  lost,      \* per pool object: the slots allocated by a newElement that threw
  last,      \* the most recent call and what it returned
  walk       \* the locals of an available() or used() call that is running

vars == <<variant, types, ty, status, pool, mem, heap, live, lost, last, walk>>

\* ------------------------------------------------------------------ memory
Load(m, a) == IF a \in DOMAIN m THEN m[a] ELSE NULL

Store(m, a, v) == [x \in (DOMAIN m) \cup {a} |-> IF x = a THEN v ELSE m[x]]

Forget(m, lo, hi) == [x \in {y \in DOMAIN m : ~(lo <= y /\ y < hi)} |-> m[x]]

EmptyMem == [x \in {} |-> NULL]

\* ----------------------------------------------------- the system allocator
EmptyHeap == [blocks |-> {}, bad |-> FALSE]

Overlaps(b, size, blk) == b < blk.base + blk.size /\ blk.base < b + size

\* A region ::operator new(size) may return: suitably aligned, inside the
\* arena, overlapping no block still allocated.
Fits(h, b, size) ==
  /\ b % PtrSize = 0
  /\ b + size <= HeapEnd
  /\ \A blk \in h.blocks : ~Overlaps(b, size, blk)

\* The addresses ::operator new(size) returns in the model: the lowest
\* fitting region of each residue modulo the strictest slot alignment.
FreeBases(h, size) ==
  { b \in PtrSize..HeapEnd :
      /\ Fits(h, b, size)
      /\ \A b2 \in PtrSize..(b - 1) :
           Fits(h, b2, size) => b2 % MaxAlign # b % MaxAlign }

operatorNew(h, b, size) == [h EXCEPT !.blocks = @ \cup {[base |-> b, size |-> size]}]

\* ::operator delete(p): deleting what is not allocated is undefined.
operatorDelete(h, b) ==
  IF \E blk \in h.blocks : blk.base = b
    THEN [h EXCEPT !.blocks = {blk \in @ : blk.base # b}]
    ELSE [h EXCEPT !.bad = TRUE]


\* ------------------------------------------------------- MemoryPool members
\* MemoryPool() noexcept: every member is nullptr.
EmptyPool ==
  [currentBlock |-> NULL, currentSlot |-> NULL, lastSlot |-> NULL, freeSlots |-> NULL]

\* A wrong padding: the offset itself instead of what is missing to the
\* next multiple.
calculatePadding_Offset(p, align) == p % align

\* A wrong padding: an aligned address is padded by a whole alignment.
calculatePadding_AlwaysPads(p, align) ==
  LET offset == p % align
  IN align - offset

calculatePadding(p, align) ==
  LET offset == p % align
  IN IF offset = 0 THEN 0 ELSE align - offset

\* A wrong first slot: the body is not padded.
FirstSlot_NoPadding(newBlock, c) == newBlock + PtrSize

\* currentSlot after allocateNewBlock: body + bodyPadding.
FirstSlot(newBlock, c) ==
  LET body == newBlock + PtrSize
      bodyPadding == calculatePadding(body, alignofSlot(c))
  IN body + bodyPadding

\* A wrong lastSlot: the end of the block, no room kept for the last slot.
LastSlot_BlockEnd(newBlock, c) == newBlock + c.BS

\* A wrong lastSlot: the + 1 is left out, so a slot that ends exactly at the
\* end of the block is never served.
LastSlot_NoPlusOne(newBlock, c) == newBlock + c.BS - sizeofSlot(c)

\* lastSlot after allocateNewBlock.
LastSlot(newBlock, c) == newBlock + c.BS - sizeofSlot(c) + 1

\* A wrong allocateNewBlock: the new block is not linked to the old head.
allocateNewBlock_Unlinked(P, m, c, newBlock) ==
  [pool |-> [P EXCEPT !.currentBlock = newBlock,
                      !.currentSlot = FirstSlot(newBlock, c),
                      !.lastSlot = LastSlot(newBlock, c)],
   mem |-> Store(m, newBlock, NULL)]

\* allocateNewBlock(), given the address newBlock that ::operator new returned.
allocateNewBlock(P, m, c, newBlock) ==
  [pool |-> [P EXCEPT !.currentBlock = newBlock,
                      !.currentSlot = FirstSlot(newBlock, c),
                      !.lastSlot = LastSlot(newBlock, c)],
   mem |-> Store(m, newBlock, P.currentBlock)]

\* A wrong pop: the head is returned but stays the head of the free list.
PopFree_KeepsHead(P, m) ==
  [pool |-> P, mem |-> m,
   ret |-> P.freeSlots, acq |-> NULL, asked |-> 0, threw |-> FALSE]

\* allocate(), first branch: pop the head of the free list.  The storage of
\* the slot is the caller's from here on, so its link word is forgotten.
PopFree(P, m) ==
  [pool |-> [P EXCEPT !.freeSlots = Load(m, P.freeSlots)],
   mem |-> Forget(m, P.freeSlots, P.freeSlots + 1),
   ret |-> P.freeSlots, acq |-> NULL, asked |-> 0, threw |-> FALSE]

\* A wrong last statement: return currentSlot, the cursor stays.
BumpSlot_NoAdvance(P, m, c, acq) ==
  [pool |-> P, mem |-> m, ret |-> P.currentSlot, acq |-> acq,
   asked |-> IF acq # NULL THEN 1 ELSE 0, threw |-> FALSE]

\* allocate(), last statement: return currentSlot++.  acq is the block the
\* call acquired before, if it did.
BumpSlot(P, m, c, acq) ==
  [pool |-> [P EXCEPT !.currentSlot = @ + sizeofSlot(c)],
   mem |-> m, ret |-> P.currentSlot, acq |-> acq,
   asked |-> IF acq # NULL THEN 1 ELSE 0, threw |-> FALSE]

\* A wrong test: a cursor that has just reached lastSlot is still served.
BlockExhausted_OffByOne(P) == P.currentSlot > P.lastSlot

\* allocate(), the condition under which a new block is acquired.
BlockExhausted(P) == P.currentSlot >= P.lastSlot

\* A wrong allocate: the cursor is tried before the free list.
allocate_CursorFirst(P, m, c, nb) ==
  IF ~BlockExhausted(P)
    THEN BumpSlot(P, m, c, NULL)
    ELSE IF P.freeSlots # NULL
      THEN PopFree(P, m)
      ELSE IF nb = NULL
        THEN [pool |-> P, mem |-> m, ret |-> NULL, acq |-> NULL, asked |-> 1,
              threw |-> TRUE]
        ELSE LET s == allocateNewBlock(P, m, c, nb)
             IN BumpSlot(s.pool, s.mem, c, nb)

\* A wrong allocate: std::bad_alloc is caught and nullptr returned.
allocate_SwallowsBadAlloc(P, m, c, nb) ==
  IF P.freeSlots # NULL
    THEN PopFree(P, m)
    ELSE IF BlockExhausted(P)
      THEN IF nb = NULL
        THEN [pool |-> P, mem |-> m, ret |-> NULL, acq |-> NULL, asked |-> 1,
              threw |-> FALSE]
        ELSE LET s == allocateNewBlock(P, m, c, nb)
             IN BumpSlot(s.pool, s.mem, c, nb)
      ELSE BumpSlot(P, m, c, NULL)

\* allocate().  nb is what ::operator new(BlockSize) answers if it is asked:
\* a block address, or NULL when it throws std::bad_alloc.  asked counts the
\* calls of ::operator new; the exception leaves allocateNewBlock before any
\* member is written and nothing in allocate catches it.
allocate(P, m, c, nb) ==
  IF P.freeSlots # NULL
    THEN PopFree(P, m)
    ELSE IF BlockExhausted(P)
      THEN IF nb = NULL
        THEN [pool |-> P, mem |-> m, ret |-> NULL, acq |-> NULL, asked |-> 1,
              threw |-> TRUE]
        ELSE LET s == allocateNewBlock(P, m, c, nb)
             IN BumpSlot(s.pool, s.mem, c, nb)
      ELSE BumpSlot(P, m, c, NULL)

\* A wrong push: the freed slot becomes the head but is not linked to the
\* old head.
deallocate_NoLink(P, m, p) ==
  IF p # NULL
    THEN [pool |-> [P EXCEPT !.freeSlots = p], mem |-> Store(m, p, NULL)]
    ELSE [pool |-> P, mem |-> m]

\* deallocate(p): push p on the free list; nothing for nullptr.
deallocate(P, m, p) ==
  IF p # NULL
    THEN [pool |-> [P EXCEPT !.freeSlots = p], mem |-> Store(m, p, P.freeSlots)]
    ELSE [pool |-> P, mem |-> m]

\* A wrong newElement: a constructor that throws gets its slot taken back.
newElement_ReleasesOnThrow(P, m, c, nb, ok) ==
  LET r == allocate(P, m, c, nb)
  IN IF r.threw
       THEN [pool |-> r.pool, mem |-> r.mem, ret |-> NULL, acq |-> r.acq,
             asked |-> r.asked, threw |-> TRUE, slot |-> NULL, leaked |-> NULL]
       ELSE IF ok
         THEN [pool |-> r.pool, mem |-> r.mem, ret |-> r.ret, acq |-> r.acq,
               asked |-> r.asked, threw |-> FALSE, slot |-> r.ret, leaked |-> NULL]
         ELSE LET d == deallocate(r.pool, r.mem, r.ret)
              IN [pool |-> d.pool, mem |-> d.mem, ret |-> NULL, acq |-> r.acq,
                  asked |-> r.asked, threw |-> TRUE, slot |-> r.ret, leaked |-> NULL]

\* newElement(args...): allocate(), then the constructor of T in the slot; ok
\* tells whether the constructor returns or throws.  Nothing catches what
\* the constructor throws: the slot allocate() returned stays handed out and
\* no caller learns its address (leaked).
newElement(P, m, c, nb, ok) ==
  LET r == allocate(P, m, c, nb)
  IN IF r.threw
       THEN [pool |-> r.pool, mem |-> r.mem, ret |-> NULL, acq |-> r.acq,
             asked |-> r.asked, threw |-> TRUE, slot |-> NULL, leaked |-> NULL]
       ELSE IF ok
         THEN [pool |-> r.pool, mem |-> r.mem, ret |-> r.ret, acq |-> r.acq,
               asked |-> r.asked, threw |-> FALSE, slot |-> r.ret, leaked |-> NULL]
         ELSE [pool |-> r.pool, mem |-> r.mem, ret |-> NULL, acq |-> r.acq,
               asked |-> r.asked, threw |-> TRUE, slot |-> r.ret, leaked |-> r.ret]

\* p->~value_type(): one run of the element's destructor on the object at p.
\* It finds the object intact when the pool has written no link word into
\* the storage of p.
destroy(m, p) == <<[at |-> p, intact |-> p \notin DOMAIN m]>>

\* A wrong deleteElement: no test for nullptr.
deleteElement_NoNullCheck(P, m, p) ==
  LET d == destroy(m, p)
      r == [pool |-> [P EXCEPT !.freeSlots = p], mem |-> Store(m, p, P.freeSlots)]
  IN [pool |-> r.pool, mem |-> r.mem, dtor |-> d]

\* A wrong deleteElement: the slot is pushed first, the destructor runs on
\* what the push left of the object.
deleteElement_PushFirst(P, m, p) ==
  IF p # NULL
    THEN LET r == deallocate(P, m, p)
             d == destroy(r.mem, p)
         IN [pool |-> r.pool, mem |-> r.mem, dtor |-> d]
    ELSE [pool |-> P, mem |-> m, dtor |-> <<>>]

\* deleteElement(p): the destructor of *p, then deallocate(p); nothing for
\* nullptr.  dtor lists the destructor runs of the call in order.
deleteElement(P, m, p) ==
  IF p # NULL
    THEN LET d == destroy(m, p)
             r == deallocate(P, m, p)
         IN [pool |-> r.pool, mem |-> r.mem, dtor |-> d]
    ELSE [pool |-> P, mem |-> m, dtor |-> <<>>]

BlockSizeAt(h, b) ==
  IF \E blk \in h.blocks : blk.base = b
    THEN (CHOOSE blk \in h.blocks : blk.base = b).size
    ELSE 0

\* The loop of ~MemoryPool(): read the link, delete the block, go on.
RECURSIVE ReleaseChain(_, _, _, _, _)
ReleaseChain(curr, m, h, rel, fuel) ==
  IF curr = NULL \/ fuel = 0
    THEN [mem |-> m, heap |-> h, rel |-> rel]
    ELSE LET successor == Load(m, curr)
         IN ReleaseChain(successor,
                         Forget(m, curr, curr + BlockSizeAt(h, curr)),
                         operatorDelete(h, curr),
                         Append(rel, curr),
                         fuel - 1)

\* The members after ~MemoryPool(): the base class resets them, the teaching
\* class leaves them as they are.
AfterDestructor(P, v) == IF v = "base" THEN EmptyPool ELSE P

\* ~MemoryPool()
destructor(P, m, h, v) ==
  LET r == ReleaseChain(P.currentBlock, m, h, <<>>, Cardinality(h.blocks) + 1)
  IN [pool |-> AfterDestructor(P, v), mem |-> r.mem, heap |-> r.heap, rel |-> r.rel]

\* A wrong move: the free list is not taken over.
MoveTarget_DropsFreeList(other) ==
  [currentBlock |-> other.currentBlock, currentSlot |-> other.currentSlot,
   lastSlot |-> other.lastSlot, freeSlots |-> NULL]

\* MemoryPool(MemoryPool&& other): the members of the new pool.
MoveTarget(other) ==
  [currentBlock |-> other.currentBlock, currentSlot |-> other.currentSlot,
   lastSlot |-> other.lastSlot, freeSlots |-> other.freeSlots]

\* A wrong move: the source keeps its members.
MoveSource_KeepsBlocks(other) == other

\* A wrong move: the cursors of the source are not reset.
MoveSource_KeepsCursor(other) ==
  [other EXCEPT !.currentBlock = NULL, !.freeSlots = NULL]

\* MemoryPool(MemoryPool&& other) and operator=(MemoryPool&&): other afterwards.
MoveSource(other) ==
  [other EXCEPT !.currentBlock = NULL, !.currentSlot = NULL,
                !.lastSlot = NULL, !.freeSlots = NULL]

\* A wrong copy: the members are copied.
CopyTarget_Shallow(other) == other

\* MemoryPool(const MemoryPool&) and MemoryPool(const MemoryPool<U>&) of the
\* teaching class: delegate to MemoryPool().
CopyTarget(other) == EmptyPool

\* A wrong move assignment: the blocks of the target are not released.
moveAssign_NoRelease(self, other, m, h, v) ==
  [self |-> MoveTarget(other), other |-> MoveSource(other),
   mem |-> m, heap |-> h, rel |-> <<>>]

\* operator=(MemoryPool&& other) with this != &other.
moveAssign(self, other, m, h, v) ==
  LET d == destructor(self, m, h, v)
  IN [self |-> MoveTarget(other), other |-> MoveSource(other),
      mem |-> d.mem, heap |-> d.heap, rel |-> d.rel]

\* A wrong operator=: no test for this == &other, so a pool assigned to
\* itself runs its destructor and then resets its own members.
operatorMoveAssign_NoSelfCheck(pools, b, a, m, h, v) ==
  LET r == moveAssign(pools[b], pools[a], m, h, v)
  IN IF a = b
       THEN [pool |-> [pools EXCEPT ![b] = MoveSource(r.self)],
             mem |-> r.mem, heap |-> r.heap, rel |-> r.rel]
       ELSE [pool |-> [pools EXCEPT ![b] = r.self, ![a] = r.other],
             mem |-> r.mem, heap |-> r.heap, rel |-> r.rel]

\* b = std::move(a) on the pool objects `pools`: nothing when a and b are the
\* same object (this == &other).
operatorMoveAssign(pools, b, a, m, h, v) ==
  IF a = b
    THEN [pool |-> pools, mem |-> m, heap |-> h, rel |-> <<>>]
    ELSE LET r == moveAssign(pools[b], pools[a], m, h, v)
         IN [pool |-> [pools EXCEPT ![b] = r.self, ![a] = r.other],
             mem |-> r.mem, heap |-> r.heap, rel |-> r.rel]

\* lastSlot - currentSlot on slot_pointer, used where currentSlot < lastSlot.
\* lastSlot is no slot boundary, so the byte distance need not be a multiple
\* of the slot size; the slot sizes of the model are powers of two, for which
\* the subtraction is compiled to a right shift of the byte distance: the
\* quotient rounded down.
PtrDiff(a, b, c) == (a - b) \div sizeofSlot(c)

\* The traversal loops of available() and used(): count the nodes of a list
\* starting from `count`, stopping at nullptr or at the cap.
RECURSIVE CountList(_, _, _)
CountList(curr, m, count) ==
  IF curr # NULL /\ count < TraversalCap
    THEN CountList(Load(m, curr), m, count + 1)
    ELSE count

\* available() const
available(P, m, c) ==
  LET count == IF P.currentSlot < P.lastSlot THEN PtrDiff(P.lastSlot, P.currentSlot, c) ELSE 0
  IN CountList(P.freeSlots, m, count)

\* used() const
used(P, m, c) ==
  LET slotsPerBlock == (c.BS - PtrSize) \div sizeofSlot(c)
      blockCount == CountList(P.currentBlock, m, 0)
      totalSlots == blockCount * slotsPerBlock
      availableInCurrentBlock ==
        IF P.currentSlot < P.lastSlot THEN PtrDiff(P.lastSlot, P.currentSlot, c) ELSE 0
      freeSlotsCount == CountList(P.freeSlots, m, 0)
      totalAvailable == availableInCurrentBlock + freeSlotsCount
  IN IF blockCount = 0 THEN 0 ELSE totalSlots - totalAvailable


\* ----------------------------------------------------------------- actions
\* A call as the caller sees it: the operation, the pool it is called on, the
\* other pool involved, the argument, the value returned, the block acquired
\* from and the blocks released to the system allocator in order, whether it
\* threw, whether the address returned was held by no caller of the pool,
\* the runs of element destructors inside the call (none but in
\* deleteElement), and how often the call asked ::operator new for a block
\* (never but in allocate and newElement).
Call(op, p, src, arg, ret, acq, rel, threw, fresh) ==
  [op |-> op, pool |-> p, src |-> src, arg |-> arg, ret |-> ret,
   acq |-> acq, rel |-> rel, threw |-> threw, fresh |-> fresh, dtor |-> <<>>,
   asked |-> 0]

AllLost == UNION {lost[p] : p \in Pools}

AllLive == UNION {live[p] : p \in Pools}

\* The template arguments of pool object p.
cfg(p) == types[ty[p]]

OtherType(t) == IF t = "T" THEN "U" ELSE "T"

\* No available() or used() call is running.
Idle == [pc |-> "idle", pool |-> "A", curr |-> NULL, count |-> 0, blocks |-> 0, steps |-> 0]

\* The state after `MemoryPool<T, BlockSize> A;`, pool B not yet declared.
Start ==
  /\ walk = Idle
  /\ variant \in Variants
  /\ status = [p \in Pools |-> IF p = "A" THEN "alive" ELSE "none"]
  /\ ty = [p \in Pools |-> "T"]
  /\ pool = [p \in Pools |-> EmptyPool]
  /\ mem = EmptyMem
  /\ heap = EmptyHeap
  /\ live = [p \in Pools |-> {}]
  /\ lost = [p \in Pools |-> {}]
  /\ last = Call("MemoryPool", "A", "A", NULL, NULL, NULL, <<>>, FALSE, TRUE)

\* A program whose instantiation fails the static_assert is ill-formed: it
\* is rejected by the compiler, so no pool object ever exists and no member
\* function runs.
IllFormed ==
  /\ walk = Idle
  /\ variant \in Variants
  /\ status = [p \in Pools |-> "none"]
  /\ ty = [p \in Pools |-> "T"]
  /\ pool = [p \in Pools |-> EmptyPool]
  /\ mem = EmptyMem
  /\ heap = EmptyHeap
  /\ live = [p \in Pools |-> {}]
  /\ lost = [p \in Pools |-> {}]
  /\ last = Call("static_assert", "A", "A", NULL, NULL, NULL, <<>>, TRUE, TRUE)

\* Any instantiation: the program runs if the instantiation compiles.
Init ==
  \E c \in Instantiations :
    /\ types = [T |-> c, U |-> c]
    /\ IF c \in Configs THEN Start ELSE IllFormed

\* One of the programs with two instantiations.
InitLife ==
  /\ types \in Programs
  /\ Start

\* MemoryPool<T, BlockSize> p;
DefaultConstruct(p) ==
  /\ status[p] = "none"
  /\ status' = [status EXCEPT ![p] = "alive"]
  /\ pool' = [pool EXCEPT ![p] = EmptyPool]
  /\ live' = [live EXCEPT ![p] = {}]
  /\ lost' = [lost EXCEPT ![p] = {}]
  /\ last' = Call("MemoryPool", p, p, NULL, NULL, NULL, <<>>, FALSE, TRUE)
  /\ UNCHANGED <<variant, types, ty, mem, heap, walk>>

\* MemoryPool<T, BlockSize> b(std::move(a));
MoveConstruct(b, a) ==
  /\ a # b
  /\ status[a] = "alive"
  /\ status[b] = "none"
  /\ status' = [status EXCEPT ![b] = "alive"]
  /\ ty' = [ty EXCEPT ![b] = ty[a]]
  /\ pool' = [pool EXCEPT ![b] = MoveTarget(pool[a]), ![a] = MoveSource(pool[a])]
  /\ live' = [live EXCEPT ![b] = live[a], ![a] = {}]
  /\ lost' = [lost EXCEPT ![b] = lost[a], ![a] = {}]
  /\ last' = Call("moveConstruct", b, a, NULL, NULL, NULL, <<>>, FALSE, TRUE)
  /\ UNCHANGED <<variant, types, mem, heap, walk>>

\* MemoryPool<T, BlockSize> b(a);  -- the teaching class only
CopyConstruct(b, a) ==
  /\ variant = "teach"
  /\ a # b
  /\ status[a] = "alive"
  /\ status[b] = "none"
  /\ status' = [status EXCEPT ![b] = "alive"]
  /\ ty' = [ty EXCEPT ![b] = ty[a]]
  /\ pool' = [pool EXCEPT ![b] = CopyTarget(pool[a])]
  /\ live' = [live EXCEPT ![b] = {}]
  /\ lost' = [lost EXCEPT ![b] = {}]
  /\ last' = Call("copyConstruct", b, a, NULL, NULL, NULL, <<>>, FALSE, TRUE)
  /\ UNCHANGED <<variant, types, mem, heap, walk>>

\* MemoryPool<T, BlockSize> b(a) with a a MemoryPool<U>, U another element
\* type  -- the teaching class only
ConvertConstruct(b, a) ==
  /\ variant = "teach"
  /\ a # b
  /\ status[a] = "alive"
  /\ status[b] = "none"
  /\ status' = [status EXCEPT ![b] = "alive"]
  /\ ty' = [ty EXCEPT ![b] = OtherType(ty[a])]
  /\ pool' = [pool EXCEPT ![b] = CopyTarget(pool[a])]
  /\ live' = [live EXCEPT ![b] = {}]
  /\ lost' = [lost EXCEPT ![b] = {}]
  /\ last' = Call("convertConstruct", b, a, NULL, NULL, NULL, <<>>, FALSE, TRUE)
  /\ UNCHANGED <<variant, types, mem, heap, walk>>

\* p goes out of scope: ~MemoryPool().  The addresses its callers held die
\* with it.
Destroy(p) ==
  /\ status[p] = "alive"
  /\ LET d == destructor(pool[p], mem, heap, variant)
     IN /\ pool' = [pool EXCEPT ![p] = d.pool]
        /\ mem' = d.mem
        /\ heap' = d.heap
        /\ last' = Call("~MemoryPool", p, p, NULL, NULL, NULL, d.rel, FALSE, TRUE)
  /\ status' = [status EXCEPT ![p] = "dead"]
  /\ live' = [live EXCEPT ![p] = {}]
  /\ lost' = [lost EXCEPT ![p] = {}]
  /\ UNCHANGED <<variant, types, ty, walk>>

\* b = std::move(a);  (a = b is the self-assignment)
MoveAssign(b, a) ==
  /\ status[a] = "alive"
  /\ status[b] = "alive"
  /\ ty[a] = ty[b]
  /\ LET r == operatorMoveAssign(pool, b, a, mem, heap, variant)
     IN /\ pool' = r.pool
        /\ mem' = r.mem
        /\ heap' = r.heap
        /\ last' = Call("moveAssign", b, a, NULL, NULL, NULL, r.rel, FALSE, TRUE)
  /\ live' = IF a = b THEN live ELSE [live EXCEPT ![b] = live[a], ![a] = {}]
  /\ lost' = IF a = b THEN lost ELSE [lost EXCEPT ![b] = lost[a], ![a] = {}]
  /\ UNCHANGED <<variant, types, ty, status, walk>>

\* The n a caller may pass: the base class has no such parameter.
Counts == IF variant = "teach" THEN 1..MaxN ELSE {1}

\* p.allocate() / p.allocate(n)
Allocate(p, n, nb) ==
  /\ status[p] = "alive"
  /\ n \in Counts
  /\ Cardinality(AllLive) < MaxLive
  /\ LET r == allocate(pool[p], mem, cfg(p), nb)
     IN /\ pool' = [pool EXCEPT ![p] = r.pool]
        /\ mem' = r.mem
        /\ heap' = IF r.acq # NULL THEN operatorNew(heap, r.acq, cfg(p).BS) ELSE heap
        /\ live' = IF r.threw THEN live ELSE [live EXCEPT ![p] = @ \cup {r.ret}]
        /\ last' = [Call("allocate", p, p, n, r.ret, r.acq, <<>>, r.threw,
                         r.ret \notin live[p])
                      EXCEPT !.asked = r.asked]
  /\ UNCHANGED <<variant, types, ty, status, lost, walk>>

\* p.deallocate(x), x nullptr or an address the caller holds
Deallocate(p, x) ==
  /\ status[p] = "alive"
  /\ x \in live[p] \cup {NULL}
  /\ LET r == deallocate(pool[p], mem, x)
     IN /\ pool' = [pool EXCEPT ![p] = r.pool]
        /\ mem' = r.mem
  /\ live' = [live EXCEPT ![p] = @ \ {x}]
  /\ last' = Call("deallocate", p, p, x, NULL, NULL, <<>>, FALSE, TRUE)
  /\ UNCHANGED <<variant, types, ty, status, heap, lost, walk>>

\* p.newElement(args...): allocate(), then construct in place; ok tells
\* whether T's constructor returns or throws.
NewElement(p, nb, ok) ==
  /\ status[p] = "alive"
  /\ Cardinality(AllLive) < MaxLive
  /\ ok \/ Cardinality(AllLost) < MaxLost
  /\ LET r == newElement(pool[p], mem, cfg(p), nb, ok)
     IN /\ pool' = [pool EXCEPT ![p] = r.pool]
        /\ lost' = IF r.leaked # NULL THEN [lost EXCEPT ![p] = @ \cup {r.leaked}] ELSE lost
        /\ mem' = r.mem
        /\ heap' = IF r.acq # NULL THEN operatorNew(heap, r.acq, cfg(p).BS) ELSE heap
        /\ live' = IF r.threw THEN live ELSE [live EXCEPT ![p] = @ \cup {r.ret}]
        /\ last' = [Call("newElement", p, p, 1, r.ret, r.acq, <<>>, r.threw,
                         r.slot \notin live[p])
                      EXCEPT !.asked = r.asked]
  /\ UNCHANGED <<variant, types, ty, status, walk>>

\* p.deleteElement(x): the destructor of *x, then deallocate(x)
DeleteElement(p, x) ==
  /\ status[p] = "alive"
  /\ x \in live[p] \cup {NULL}
  /\ LET r == deleteElement(pool[p], mem, x)
     IN /\ pool' = [pool EXCEPT ![p] = r.pool]
        /\ mem' = r.mem
        /\ last' = [Call("deleteElement", p, p, x, NULL, NULL, <<>>, FALSE, TRUE)
                      EXCEPT !.dtor = r.dtor]
  /\ live' = [live EXCEPT ![p] = @ \ {x}]
  /\ UNCHANGED <<variant, types, ty, status, heap, lost, walk>>

\* p.available()  -- the teaching class only
Available(p) ==
  /\ variant = "teach"
  /\ status[p] = "alive"
  /\ last' = Call("available", p, p, NULL, available(pool[p], mem, cfg(p)), NULL,
                  <<>>, FALSE, TRUE)
  /\ UNCHANGED <<variant, types, ty, status, pool, mem, heap, live, lost, walk>>

\* p.used()  -- the teaching class only
Used(p) ==
  /\ variant = "teach"
  /\ status[p] = "alive"
  /\ last' = Call("used", p, p, NULL, used(pool[p], mem, cfg(p)), NULL,
                  <<>>, FALSE, TRUE)
  /\ UNCHANGED <<variant, types, ty, status, pool, mem, heap, live, lost, walk>>

\* What ::operator new(BlockSize) may answer to pool p: a block or bad_alloc.
NewAnswers(p) == FreeBases(heap, cfg(p).BS) \cup {NULL}

\* A program that works on the one pool A.
NextAlloc ==
  \/ \E n \in 1..MaxN : \E nb \in NewAnswers("A") : Allocate("A", n, nb)
  \/ \E x \in AllLive \cup {NULL} : Deallocate("A", x)
  \/ \E ok \in BOOLEAN : \E nb \in NewAnswers("A") : NewElement("A", nb, ok)
  \/ \E x \in AllLive \cup {NULL} : DeleteElement("A", x)
  \/ Available("A")
  \/ Used("A")

\* A program that constructs, moves, copies and destroys the pools A and B.
NextLife ==
  \/ \E p \in Pools : DefaultConstruct(p)
  \/ \E b \in Pools, a \in Pools : MoveConstruct(b, a)
  \/ \E b \in Pools, a \in Pools : CopyConstruct(b, a)
  \/ \E b \in Pools, a \in Pools : ConvertConstruct(b, a)
  \/ \E p \in Pools : Destroy(p)
  \/ \E b \in Pools, a \in Pools : MoveAssign(b, a)
  \/ \E p \in Pools : \E nb \in NewAnswers(p) : Allocate(p, 1, nb)
  \/ \E p \in Pools, x \in AllLive \cup {NULL} : Deallocate(p, x)

Spec == Init /\ [][NextAlloc]_vars

SpecLife == InitLife /\ [][NextLife]_vars

\* ------------------------------------------------- reading the structures
\* The nodes of a linked list in memory, from its head to nullptr.
RECURSIVE ListSeq(_, _, _)
ListSeq(curr, m, fuel) ==
  IF curr = NULL \/ fuel = 0
    THEN <<>>
    ELSE <<curr>> \o ListSeq(Load(m, curr), m, fuel - 1)

Range(q) == {q[i] : i \in DOMAIN q}

\* The block chain and the free list of a pool with members P in memory m.
ChainOf(P, m) == ListSeq(P.currentBlock, m, Cardinality(DOMAIN m) + 1)

FreeListOf(P, m) == ListSeq(P.freeSlots, m, Cardinality(DOMAIN m) + 1)

\* The block chain and the free list of pool p.
Chain(p) == ChainOf(pool[p], mem)

FreeList(p) == FreeListOf(pool[p], mem)

HeapBases == {blk.base : blk \in heap.blocks}

\* Slot a lies inside the block at b, behind its link word.
InBlock(a, b, c) == b + PtrSize <= a /\ a + sizeofSlot(c) <= b + c.BS

\* ------------------------------------- available() and used(), step by step
\* The instantiations of the programs that run the diagnostics step by step:
\* one block of two slots, and two blocks of one slot each.
DiagConfigs == { Cfg(16, 8, 40), Cfg(16, 16, 32) }

InitDiag ==
  /\ types \in { [T |-> c, U |-> c] : c \in DiagConfigs }
  /\ Start
  /\ variant = "teach"

\* A wrong loop condition: no safety limit.
TraversalGoesOn_NoCap(curr, count) == curr # NULL

\* The condition of the three while loops: curr != nullptr && count < 1000.
TraversalGoesOn(curr, count) == curr # NULL /\ count < TraversalCap

\* One pass through the body of a while loop: count++; curr = curr->next.
TraversalStep ==
  [walk EXCEPT !.count = @ + 1, !.curr = Load(mem, walk.curr), !.steps = @ + 1]

\* p.deallocate(x) for an x that is on the free list already: the caller
\* gives the same address back twice.
DoubleDeallocate(p, x) ==
  /\ walk = Idle
  /\ status[p] = "alive"
  /\ x \in Range(FreeList(p))
  /\ LET r == deallocate(pool[p], mem, x)
     IN /\ pool' = [pool EXCEPT ![p] = r.pool]
        /\ mem' = r.mem
  /\ live' = [live EXCEPT ![p] = @ \ {x}]
  /\ last' = Call("deallocate", p, p, x, NULL, NULL, <<>>, FALSE, TRUE)
  /\ UNCHANGED <<variant, types, ty, status, heap, lost, walk>>

\* available() up to its loop: count starts from the rest of the head block.
AvailableEnter(p) ==
  /\ walk = Idle
  /\ status[p] = "alive"
  /\ walk' = [Idle EXCEPT !.pc = "available", !.pool = p,
                          !.count = IF pool[p].currentSlot < pool[p].lastSlot
                                      THEN PtrDiff(pool[p].lastSlot, pool[p].currentSlot, cfg(p))
                                      ELSE 0,
                          !.curr = pool[p].freeSlots]
  /\ UNCHANGED <<variant, types, ty, status, pool, mem, heap, live, lost, last>>

\* One iteration of the loop of available().
AvailableLoop ==
  /\ walk.pc = "available"
  /\ TraversalGoesOn(walk.curr, walk.count)
  /\ walk' = TraversalStep
  /\ UNCHANGED <<variant, types, ty, status, pool, mem, heap, live, lost, last>>

\* return count;
AvailableReturn ==
  /\ walk.pc = "available"
  /\ ~TraversalGoesOn(walk.curr, walk.count)
  /\ last' = Call("available", walk.pool, walk.pool, NULL, walk.count, NULL,
                  <<>>, FALSE, TRUE)
  /\ walk' = Idle
  /\ UNCHANGED <<variant, types, ty, status, pool, mem, heap, live, lost>>

\* used() up to its first loop, over the block chain.
UsedEnter(p) ==
  /\ walk = Idle
  /\ status[p] = "alive"
  /\ walk' = [Idle EXCEPT !.pc = "usedBlocks", !.pool = p, !.curr = pool[p].currentBlock]
  /\ UNCHANGED <<variant, types, ty, status, pool, mem, heap, live, lost, last>>

\* One iteration of the loop over the block chain.
UsedBlockLoop ==
  /\ walk.pc = "usedBlocks"
  /\ TraversalGoesOn(walk.curr, walk.count)
  /\ walk' = TraversalStep
  /\ UNCHANGED <<variant, types, ty, status, pool, mem, heap, live, lost, last>>

\* if (blockCount == 0) return 0;
UsedReturnNoBlock ==
  /\ walk.pc = "usedBlocks"
  /\ ~TraversalGoesOn(walk.curr, walk.count)
  /\ walk.count = 0
  /\ last' = Call("used", walk.pool, walk.pool, NULL, 0, NULL, <<>>, FALSE, TRUE)
  /\ walk' = Idle
  /\ UNCHANGED <<variant, types, ty, status, pool, mem, heap, live, lost>>

\* From the loop over the block chain to the loop over the free list.
UsedEnterFree ==
  /\ walk.pc = "usedBlocks"
  /\ ~TraversalGoesOn(walk.curr, walk.count)
  /\ walk.count # 0
  /\ walk' = [Idle EXCEPT !.pc = "usedFree", !.pool = walk.pool, !.blocks = walk.count,
                          !.curr = pool[walk.pool].freeSlots]
  /\ UNCHANGED <<variant, types, ty, status, pool, mem, heap, live, lost, last>>

\* One iteration of the loop over the free list.
UsedFreeLoop ==
  /\ walk.pc = "usedFree"
  /\ TraversalGoesOn(walk.curr, walk.count)
  /\ walk' = TraversalStep
  /\ UNCHANGED <<variant, types, ty, status, pool, mem, heap, live, lost, last>>

\* return totalSlots - totalAvailable; the difference is computed in
\* size_type, so a negative number here is the value the call returns
\* less 2^64.
UsedReturn ==
  /\ walk.pc = "usedFree"
  /\ ~TraversalGoesOn(walk.curr, walk.count)
  /\ LET p == walk.pool
         slotsPerBlock == (cfg(p).BS - PtrSize) \div sizeofSlot(cfg(p))
         totalSlots == walk.blocks * slotsPerBlock
         availableInCurrentBlock ==
           IF pool[p].currentSlot < pool[p].lastSlot
             THEN PtrDiff(pool[p].lastSlot, pool[p].currentSlot, cfg(p))
             ELSE 0
         totalAvailable == availableInCurrentBlock + walk.count
     IN last' = Call("used", p, p, NULL, totalSlots - totalAvailable, NULL,
                     <<>>, FALSE, TRUE)
  /\ walk' = Idle
  /\ UNCHANGED <<variant, types, ty, status, pool, mem, heap, live, lost>>

\* What ::operator new(BlockSize) answers to pool p in the program of the
\* diagnostics: the lowest block that fits.
LowestFit(p) ==
  { b \in FreeBases(heap, cfg(p).BS) : \A o \in FreeBases(heap, cfg(p).BS) : b <= o }

\* The steps of a running available() or used() call.
WalkNext ==
  \/ AvailableLoop
  \/ AvailableReturn
  \/ UsedBlockLoop
  \/ UsedReturnNoBlock
  \/ UsedEnterFree
  \/ UsedFreeLoop
  \/ UsedReturn

\* A program on the pool A of the teaching class that may give an address
\* back twice and calls the diagnostics in between.
NextDiag ==
  \/ walk = Idle /\ \E nb \in LowestFit("A") : Allocate("A", 1, nb)
  \/ walk = Idle /\ \E x \in AllLive : Deallocate("A", x)
  \/ \E x \in Range(FreeList("A")) : DoubleDeallocate("A", x)
  \/ AvailableEnter("A")
  \/ UsedEnter("A")
  \/ AvailableLoop
  \/ AvailableReturn
  \/ UsedBlockLoop
  \/ UsedReturnNoBlock
  \/ UsedEnterFree
  \/ UsedFreeLoop
  \/ UsedReturn

\* A call that was entered keeps running: the program has one thread.
SpecDiag == InitDiag /\ [][NextDiag]_vars /\ WF_vars(WalkNext)

\* ------------------------------------------- calculatePadding on its own
InitPad ==
  /\ types = [T |-> Cfg(4, 4, 24), U |-> Cfg(4, 4, 24)]
  /\ Start

\* calculatePadding(p, align) of pool A, for any address and any alignment
\* from 1 on.
CalculatePadding(p, align) ==
  /\ status["A"] = "alive"
  /\ last' = Call("calculatePadding", "A", "A", [p |-> p, align |-> align],
                  calculatePadding(p, align), NULL, <<>>, FALSE, TRUE)
  /\ UNCHANGED <<variant, types, ty, status, pool, mem, heap, live, lost, walk>>

NextPad == \E p \in 0..MaxAddress : \E align \in 1..MaxAlignment : CalculatePadding(p, align)

SpecPad == InitPad /\ [][NextPad]_vars

Allocating == last.op \in {"allocate", "newElement"} /\ ~last.threw

\* ------------------------------------------------------------------ claims
\* C1: an address returned by allocate is held by no caller of the pool at
\* that moment, so no two live slots have the same address, also when the
\* slots lie in different blocks.
C1_DistinctLive == Allocating => last.fresh /\ last.ret # NULL

\* C1 witness: allocate acquired a second block while a slot of an earlier
\* block is still live.
C1_Witness ==
  /\ last.op = "allocate" /\ last.acq # NULL
  /\ Len(Chain("A")) >= 2
  /\ \E a \in live["A"] : a # last.ret /\ ~InBlock(a, last.acq, cfg("A"))

\* C2: the slot returned by allocate lies entirely inside one block the pool
\* owns and does not overlap the link word of that block.
C2_SlotInsideBlock ==
  Allocating =>
    \E b \in Range(Chain(last.pool)) :
      /\ b \in HeapBases
      /\ InBlock(last.ret, b, cfg(last.pool))

\* C2 witness: the first allocation after a block was acquired, with the
\* first slot moved up by alignment padding.
C2_Witness ==
  /\ last.op = "allocate" /\ last.acq # NULL
  /\ last.ret > last.acq + PtrSize

\* The calls deallocate(q[1]), ..., deallocate(q[Len(q)]) on a pool.
RECURSIVE FreeAll(_, _, _)
FreeAll(P, m, q) ==
  IF q = <<>>
    THEN [pool |-> P, mem |-> m]
    ELSE LET r == deallocate(P, m, Head(q))
         IN FreeAll(r.pool, r.mem, Tail(q))

\* k calls of allocate() on a pool, the system allocator giving nothing: the
\* results of the calls in order.
RECURSIVE AllocMany(_, _, _, _)
AllocMany(P, m, c, k) ==
  IF k = 0
    THEN <<>>
    ELSE LET r == allocate(P, m, c, NULL)
         IN <<r>> \o AllocMany(r.pool, r.mem, c, k - 1)

\* The orders in which some of the addresses of S can be deallocated.
Orders(S) ==
  UNION { { q \in [1..k -> S] : \A i, j \in 1..k : q[i] = q[j] => i = j } :
          k \in 1..Cardinality(S) }

\* C3: when live addresses p1..pk are deallocated in that order, the next k
\* calls of allocate return pk, ..., p1, and none of them acquires a block
\* or moves the current-slot cursor.
C3_LifoReuse ==
  \A q \in Orders(live["A"]) :
    LET f == FreeAll(pool["A"], mem, q)
        rs == AllocMany(f.pool, f.mem, cfg("A"), Len(q))
    IN \A i \in 1..Len(q) :
         /\ ~rs[i].threw
         /\ rs[i].ret = q[Len(q) + 1 - i]
         /\ rs[i].acq = NULL
         /\ rs[i].pool.currentSlot = pool["A"].currentSlot
         /\ rs[i].pool.currentBlock = pool["A"].currentBlock

\* C3 witness: after two deallocations, allocate gave back the address
\* deallocated last and the free list still holds the one deallocated first.
C3_Witness ==
  /\ last.op = "allocate" /\ ~last.threw /\ last.acq = NULL
  /\ pool["A"].freeSlots # NULL
  /\ Cardinality(live["A"]) >= 2

\* C4 (as claimed): the storage allocate(n) returns holds n contiguous
\* elements inside one block of the pool and is disjoint from every other
\* live slot.
C4_StorageForN ==
  (last.op = "allocate" /\ ~last.threw) =>
    LET c == cfg(last.pool)
        end == last.ret + last.arg * c.T.size
    IN /\ \E b \in Range(Chain(last.pool)) :
            b + PtrSize <= last.ret /\ end <= b + c.BS
       /\ \A a \in live[last.pool] \ {last.ret} :
            end <= a \/ a + c.T.size <= last.ret

\* C5: allocate, deallocate, newElement, deleteElement, available and used
\* never release a block or take one off the chain; the chain grows by one
\* block at a time, the new block linked in front of the previous head, and
\* every live address stays inside a block the pool owns.
C5_BlocksAccumulate ==
  [][ LET old == Chain("A")
          new == Chain("A")'
      IN /\ \/ new = old /\ heap' = heap
            \/ /\ Len(new) = Len(old) + 1
               /\ Tail(new) = old
               /\ Head(new) \notin HeapBases
               /\ HeapBases' = HeapBases \cup {Head(new)}
         /\ heap.blocks \subseteq heap'.blocks
         /\ ~heap'.bad
         /\ \A a \in live'["A"] :
              \E b \in Range(new) : b \in HeapBases' /\ InBlock(a, b, cfg("A"))
    ]_vars

\* C5 witness: the pool owns two blocks and every address has been released
\* again through deleteElement.
C5_Witness ==
  /\ last.op = "deleteElement" /\ last.arg # NULL
  /\ Len(Chain("A")) >= 2
  /\ Range(Chain("A")) \subseteq HeapBases
  /\ live["A"] = {}

Alive == {p \in Pools : status[p] = "alive"}

\* C6: no block is released twice and, once every pool is destroyed, no
\* acquired block is left: every block is released exactly once.
C6_ReleasedOnce ==
  /\ ~heap.bad
  /\ \A i, j \in DOMAIN last.rel : last.rel[i] = last.rel[j] => i = j
  /\ Range(last.rel) \cap HeapBases = {}
  /\ Alive = {} => heap.blocks = {}

\* C6 witness: both pools are destroyed and the last destructor released a
\* chain of two blocks.
C6_Witness ==
  /\ \A p \in Pools : status[p] = "dead"
  /\ last.op = "~MemoryPool"
  /\ Len(last.rel) >= 2

\* C7: after b is move-constructed from a, a is empty: no blocks, null
\* cursors, empty free list; available() and used() on a return 0; the next
\* allocate on a acquires a fresh block that is none of b's; destroying a
\* releases nothing.
C7_MovedFromEmpty ==
  last.op = "moveConstruct" =>
    LET a == last.src
        b == last.pool
        c == cfg(a)
        d == destructor(pool[a], mem, heap, variant)
    IN /\ status[a] = "alive"
       /\ pool[a] = EmptyPool
       /\ variant = "teach" =>
            available(pool[a], mem, c) = 0 /\ used(pool[a], mem, c) = 0
       /\ allocate(pool[a], mem, c, NULL).threw
       /\ \A nb \in FreeBases(heap, c.BS) :
            LET r == allocate(pool[a], mem, c, nb)
            IN /\ r.acq = nb
               /\ nb \notin Range(Chain(b))
               /\ InBlock(r.ret, nb, c)
               /\ \A bb \in Range(Chain(b)) : ~InBlock(r.ret, bb, c)
       /\ d.rel = <<>>
       /\ d.heap = heap

\* C7 witness: the pool moved from owned a block and had a free slot, and
\* the system allocator has room for a fresh block.
C7_Witness ==
  /\ last.op = "moveConstruct"
  /\ pool[last.pool].currentBlock # NULL
  /\ pool[last.pool].freeSlots # NULL
  /\ FreeBases(heap, cfg(last.src).BS) # {}

Min(S) == CHOOSE x \in S : \A y \in S : x <= y

\* The i-th smallest address of S.
RECURSIVE Nth(_, _)
Nth(S, i) == IF i = 1 THEN Min(S) ELSE Nth(S \ {Min(S)}, i - 1)

\* A sequence of calls on a pool whose callers hold the addresses L: 0 is
\* allocate(), i > 0 is deallocate of the i-th smallest address held.  The
\* system allocator answers with the lowest address it has.  The result is
\* the sequence of the addresses returned.
RECURSIVE Replay(_, _, _, _, _, _)
Replay(P, m, h, L, c, script) ==
  IF script = <<>>
    THEN <<>>
    ELSE LET op == Head(script)
             rest == Tail(script)
         IN IF op = 0
              THEN LET fb == FreeBases(h, c.BS)
                       nb == IF fb = {} THEN NULL ELSE Min(fb)
                       r == allocate(P, m, c, nb)
                   IN <<r.ret>> \o
                      Replay(r.pool, r.mem,
                             IF r.acq # NULL THEN operatorNew(h, r.acq, c.BS) ELSE h,
                             IF r.threw THEN L ELSE L \cup {r.ret}, c, rest)
              ELSE IF op > Cardinality(L)
                THEN Replay(P, m, h, L, c, rest)
                ELSE LET r == deallocate(P, m, Nth(L, op))
                     IN Replay(r.pool, r.mem, h, L \ {Nth(L, op)}, c, rest)

Scripts == [1..ScriptLen -> 0..2]

\* C8: after b is move-constructed from a, b holds a's state of before the
\* move (block chain, free list in order, both cursors), the addresses a
\* issued are b's, and every sequence of allocate/deallocate calls on b
\* returns the addresses it would have returned on a.
C8_MoveKeepsState ==
  [][ (last'.op = "moveConstruct" /\ status[last'.pool] = "none") =>
        LET a == last'.src
            b == last'.pool
        IN /\ pool'[b] = pool[a]
           /\ mem' = mem
           /\ heap' = heap
           /\ live'[b] = live[a]
           /\ ChainOf(pool'[b], mem') = Chain(a)
           /\ FreeListOf(pool'[b], mem') = FreeList(a)
           /\ \A script \in Scripts :
                Replay(pool'[b], mem', heap', live'[b], types'[ty'[b]], script)
                  = Replay(pool[a], mem, heap, live[a], cfg(a), script)
    ]_vars

\* C8 witness: the pool moved into holds a block, a free list and two
\* addresses issued by the pool moved from.
C8_Witness ==
  /\ last.op = "moveConstruct"
  /\ pool[last.pool].freeSlots # NULL
  /\ Cardinality(live[last.pool]) >= 2
  /\ live[last.src] = {}

\* C9: b = move(a) with b and a distinct releases every block b owned, each
\* once, gives b the chain, free list and cursors of a and leaves a empty;
\* afterwards destroying a releases nothing and destroying b releases
\* exactly the blocks a owned.
C9_MoveAssign ==
  [][ (last'.op = "moveAssign" /\ last'.pool # last'.src) =>
        LET a == last'.src
            b == last'.pool
        IN /\ last'.rel = Chain(b)
           /\ Range(Chain(b)) \subseteq HeapBases
           /\ \A i, j \in DOMAIN last'.rel : last'.rel[i] = last'.rel[j] => i = j
           /\ HeapBases' = HeapBases \ Range(Chain(b))
           /\ ~heap'.bad
           /\ pool'[b] = pool[a]
           /\ pool'[a] = EmptyPool
           /\ ChainOf(pool'[b], mem') = Chain(a)
           /\ FreeListOf(pool'[b], mem') = FreeList(a)
           /\ destructor(pool'[a], mem', heap', variant).rel = <<>>
           /\ destructor(pool'[b], mem', heap', variant).rel = Chain(a)
    ]_vars

\* C9 witness: both pools owned blocks before the assignment.
C9_Witness ==
  /\ last.op = "moveAssign" /\ last.pool # last.src
  /\ last.rel # <<>>
  /\ pool[last.pool].currentBlock # NULL
  /\ pool[last.src] = EmptyPool

\* The slots pool p has handed out or keeps on its free list.
Slots(p) == live[p] \cup Range(FreeList(p))

NoSharing ==
  \A p, q \in Alive :
    p # q => /\ Range(Chain(p)) \cap Range(Chain(q)) = {}
             /\ Slots(p) \cap Slots(q) = {}

\* C10: copy-constructing b from a, of the same or of another element type,
\* yields an empty b whatever a contains and leaves a unchanged, and two
\* pools never share a block or a slot.
C10_CopyIsEmpty ==
  /\ [][ (last'.op \in {"copyConstruct", "convertConstruct"}
             /\ status[last'.pool] = "none") =>
           LET a == last'.src
               b == last'.pool
           IN /\ pool'[b] = EmptyPool
              /\ live'[b] = {}
              /\ pool'[a] = pool[a]
              /\ live'[a] = live[a]
              /\ mem' = mem
              /\ heap' = heap
              /\ ChainOf(pool'[a], mem') = Chain(a)
              /\ FreeListOf(pool'[a], mem') = FreeList(a)
       ]_vars
  /\ []NoSharing

\* C10 witness: a pool of the other element type was constructed from a pool
\* that owns a block and a free slot, and has acquired a block of its own.
C10_Witness ==
  /\ Alive = Pools
  /\ ty["A"] # ty["B"]
  /\ \A p \in Pools : pool[p].currentBlock # NULL
  /\ \E p \in Pools : pool[p].freeSlots # NULL

\* C11: deallocate(nullptr) and deleteElement(nullptr) change nothing in any
\* pool state: free list, both cursors, block chain, memory, the system
\* allocator and the addresses held stay as they are, no element destructor
\* runs and the call does not throw.
C11_NullIsNoOp ==
  [][ (last'.op \in {"deallocate", "deleteElement"} /\ last'.arg = NULL) =>
        /\ pool' = pool
        /\ mem' = mem
        /\ heap' = heap
        /\ live' = live
        /\ ChainOf(pool'["A"], mem') = Chain("A")
        /\ FreeListOf(pool'["A"], mem') = FreeList("A")
        /\ last'.dtor = <<>>
        /\ ~last'.threw
    ]_vars

\* C11 witness: deleteElement(nullptr) on a pool with two blocks, a free
\* slot and a live address.
C11_Witness ==
  /\ last.op = "deleteElement" /\ last.arg = NULL
  /\ Len(Chain("A")) >= 2
  /\ pool["A"].freeSlots # NULL
  /\ live["A"] # {}

\* C12: when ::operator new cannot supply a block, allocate and newElement
\* throw to the caller after asking once, and the pool is as before the call:
\* block chain, both cursors, free list, link words and the addresses held
\* are unchanged, and a later allocate succeeds when the system allocator
\* has a block again.
C12_OutOfMemory ==
  [][ (last'.op \in {"allocate", "newElement"} /\ last'.asked > 0 /\ last'.acq = NULL) =>
        /\ last'.threw
        /\ last'.asked = 1
        /\ last'.ret = NULL
        /\ pool' = pool
        /\ mem' = mem
        /\ heap' = heap
        /\ live' = live
        /\ lost' = lost
        /\ ChainOf(pool'["A"], mem') = Chain("A")
        /\ FreeListOf(pool'["A"], mem') = FreeList("A")
        /\ \A nb \in FreeBases(heap', types'[ty'["A"]].BS) :
             LET r == allocate(pool'["A"], mem', types'[ty'["A"]], nb)
             IN /\ ~r.threw
                /\ r.acq = nb
                /\ InBlock(r.ret, nb, types'[ty'["A"]])
                /\ r.ret \notin live'["A"]
    ]_vars

\* C12 witness: newElement ran out of memory on a pool that owns a block
\* whose slots are all handed out, while the system allocator has room.
C12_Witness ==
  /\ last.op = "newElement" /\ last.threw /\ last.asked = 1 /\ last.acq = NULL
  /\ Len(Chain("A")) >= 1
  /\ live["A"] # {}
  /\ FreeBases(heap, cfg("A").BS) # {}

\* C13: an instantiation with BlockSize < 2 * sizeof(slot_type) is rejected
\* before anything runs: no pool object of it exists, nothing was asked of
\* the system allocator and no call was made; every instantiation with
\* BlockSize >= 2 * sizeof(slot_type) is accepted and its pool exists.
C13_SmallBlockRejected ==
  LET c == types["T"]
  IN /\ c.BS < 2 * sizeofSlot(c) =>
          /\ \A p \in Pools : status[p] = "none" /\ pool[p] = EmptyPool /\ live[p] = {}
          /\ heap = EmptyHeap
          /\ mem = EmptyMem
          /\ last.op = "static_assert"
     /\ c.BS >= 2 * sizeofSlot(c) =>
          /\ status["A"] = "alive"
          /\ last.op # "static_assert"

\* C13 witness: the block size is one byte short of two slot widths and the
\* program is rejected.
C13_Witness ==
  /\ types["T"].BS + 1 = 2 * sizeofSlot(types["T"])
  /\ status["A"] = "none"
  /\ last.op = "static_assert"

\* C14: deleteElement(p) with p not nullptr runs the destructor of the
\* element at p exactly once, on the object as the caller left it, that is
\* before the push writes the link word into its storage; afterwards p is
\* the head of the free list, linked to the previous head, and the next
\* allocate returns p without acquiring a block.
C14_DestroyThenPush ==
  [][ (last'.op = "deleteElement" /\ last'.arg # NULL) =>
        LET p == last'.arg
            r == allocate(pool'["A"], mem', types'[ty'["A"]], NULL)
        IN /\ last'.dtor = <<[at |-> p, intact |-> TRUE]>>
           /\ p \notin DOMAIN mem
           /\ pool'["A"].freeSlots = p
           /\ Load(mem', p) = pool["A"].freeSlots
           /\ FreeListOf(pool'["A"], mem') = <<p>> \o FreeList("A")
           /\ p \notin live'["A"]
           /\ ~r.threw /\ r.ret = p /\ r.acq = NULL
           /\ r.pool.freeSlots = pool["A"].freeSlots
    ]_vars

\* C14 witness: deleteElement of an element onto a free list that already
\* held a slot, while another address is still held.
C14_Witness ==
  /\ last.op = "deleteElement" /\ last.arg # NULL
  /\ Len(last.dtor) = 1
  /\ Len(FreeList("A")) >= 2
  /\ live["A"] # {}

\* The number of leading calls in a sequence of allocate results that
\* returned a slot.
RECURSIVE Successes(_)
Successes(rs) ==
  IF rs = <<>> \/ Head(rs).threw THEN 0 ELSE 1 + Successes(Tail(rs))

\* How many consecutive allocate calls the pool serves without a new block:
\* the calls made with a system allocator that supplies nothing.
Allocatable(P, m, c) ==
  Successes(AllocMany(P, m, c, Len(FreeListOf(P, m)) + c.BS \div sizeofSlot(c) + 1))

\* The slots between the current-slot cursor and the end of the current block
\* that fit in the block entirely.
UnusedFitting(P, c) ==
  IF P.currentBlock = NULL
    THEN 0
    ELSE Cardinality({ i \in 0..(c.BS \div sizeofSlot(c)) :
                        P.currentSlot + (i + 1) * sizeofSlot(c) <= P.currentBlock + c.BS })

\* C15 (as claimed): available() returns the number of slots that can be
\* allocated without acquiring a block: the unused slots that fit between
\* the current-slot cursor and the end of the current block plus the length
\* of the free list, which is the number of consecutive allocate calls that
\* succeed before one acquires a block.
C15_AvailableCountsAllocatable ==
  last.op = "available" =>
    /\ last.ret = UnusedFitting(pool["A"], cfg("A")) + Len(FreeList("A"))
    /\ last.ret = Allocatable(pool["A"], mem, cfg("A"))

\* The slots carved in the block at b: those that fit behind the link word
\* and the alignment padding.
SlotsIn(b, c) ==
  Cardinality({ i \in 0..(c.BS \div sizeofSlot(c)) :
                  FirstSlot(b, c) + (i + 1) * sizeofSlot(c) <= b + c.BS })

RECURSIVE SumSlots(_, _)
SumSlots(q, c) == IF q = <<>> THEN 0 ELSE SlotsIn(Head(q), c) + SumSlots(Tail(q), c)

\* C16 (as claimed): used() is the number of slots carved in all the blocks
\* of the pool, counting per block the slots that fit behind the link word
\* and the alignment padding, minus what available() returns in the same
\* state; on an empty pool it is 0.
C16_UsedIsCarvedMinusAvailable ==
  last.op = "used" =>
    /\ last.ret = SumSlots(Chain("A"), cfg("A")) - available(pool["A"], mem, cfg("A"))
    /\ pool["A"] = EmptyPool => last.ret = 0

\* The addresses a step hands out: to a caller, or to a constructor that
\* threw.
Issued == (live'["A"] \cup lost'["A"]) \ (live["A"] \cup lost["A"])

\* C17: allocate (also inside newElement) takes its slot by fixed priority.
\* With a free list it pops the head, asks for no block and moves neither
\* cursor nor chain.  Without one, exactly when currentSlot has reached
\* lastSlot (an empty pool included), it asks ::operator new once, links
\* the one new block in front and hands out its first slot.  Otherwise it
\* hands out currentSlot and advances it by one slot size.
C17_AllocatePriority ==
  [][ last'.op \in {"allocate", "newElement"} =>
        LET P == pool["A"]
            Q == pool'["A"]
            c == cfg("A")
            newChain == ChainOf(pool'["A"], mem')
            newFree == FreeListOf(pool'["A"], mem')
        IN /\ last'.asked \in {0, 1}
           /\ Cardinality(heap'.blocks) <= Cardinality(heap.blocks) + 1
           /\ IF P.freeSlots # NULL
                THEN /\ last'.asked = 0 /\ last'.acq = NULL
                     /\ heap' = heap
                     /\ Issued = {P.freeSlots}
                     /\ newFree = Tail(FreeList("A"))
                     /\ Q.currentSlot = P.currentSlot
                     /\ Q.lastSlot = P.lastSlot
                     /\ Q.currentBlock = P.currentBlock
                     /\ newChain = Chain("A")
                ELSE IF P.currentSlot >= P.lastSlot
                  THEN /\ last'.asked = 1
                       /\ last'.acq = NULL => last'.threw /\ Issued = {}
                       /\ last'.acq # NULL =>
                            /\ HeapBases' = HeapBases \cup {last'.acq}
                            /\ last'.acq \notin HeapBases
                            /\ newChain = <<last'.acq>> \o Chain("A")
                            /\ Issued = {FirstSlot(last'.acq, c)}
                            /\ Q.currentSlot = FirstSlot(last'.acq, c) + sizeofSlot(c)
                            /\ Q.freeSlots = NULL
                  ELSE /\ last'.asked = 0 /\ last'.acq = NULL
                       /\ heap' = heap
                       /\ Issued = {P.currentSlot}
                       /\ Q.currentSlot = P.currentSlot + sizeofSlot(c)
                       /\ Q.lastSlot = P.lastSlot
                       /\ Q.currentBlock = P.currentBlock
                       /\ newChain = Chain("A")
                       /\ Q.freeSlots = NULL
    ]_vars

\* C17 witness: allocate popped the free list while the current block was
\* used up, and acquired no block.
C17_Witness ==
  /\ last.op = "allocate" /\ ~last.threw /\ last.acq = NULL /\ last.asked = 0
  /\ pool["A"].currentBlock # NULL
  /\ pool["A"].currentSlot >= pool["A"].lastSlot
  /\ last.ret # pool["A"].currentSlot - sizeofSlot(cfg("A"))

\* The slots carved in the block at b, and in all the blocks of a pool.
CarvedIn(b, c) == { FirstSlot(b, c) + i * sizeofSlot(c) : i \in 0..(SlotsIn(b, c) - 1) }

Carved(P, m, c) == UNION { CarvedIn(b, c) : b \in Range(ChainOf(P, m)) }

\* The states a carved slot a is in, for a pool with members P, link words m
\* and the set L of addresses handed out and not given back: Unused when it
\* lies in [currentSlot, lastSlot), Free when it is on the free list, Live
\* when it is handed out.
StatesOf(a, P, m, L) ==
  {s \in {"Unused"} : P.currentSlot <= a /\ a < P.lastSlot}
    \cup {s \in {"Free"} : a \in Range(FreeListOf(P, m))}
    \cup {s \in {"Live"} : a \in L}

\* The addresses pool A handed out and did not get back: those its callers
\* hold and those given to a constructor that threw.
HandedOut == live["A"] \cup lost["A"]

\* The free list is acyclic and without duplicates, ends in nullptr, lies in
\* slots of the pool's blocks, and every carved slot is in exactly one
\* state.
SlotStatesPartition ==
  LET c == cfg("A")
      fl == FreeList("A")
  IN /\ \A i, j \in DOMAIN fl : fl[i] = fl[j] => i = j
     /\ \A i \in DOMAIN fl : fl[i] \in DOMAIN mem
     /\ fl # <<>> => mem[fl[Len(fl)]] = NULL
     /\ Range(fl) \subseteq Carved(pool["A"], mem, c)
     /\ Range(Chain("A")) \subseteq HeapBases
     /\ HandedOut \subseteq Carved(pool["A"], mem, c)
     /\ \A a \in Carved(pool["A"], mem, c) :
          Cardinality(StatesOf(a, pool["A"], mem, HandedOut)) = 1

\* The changes of slot states in one step.
SlotTransitions ==
  LET c == cfg("A")
      old == Carved(pool["A"], mem, c)
      new == Carved(pool'["A"], mem', c)
      before(a) == StatesOf(a, pool["A"], mem, HandedOut)
      after(a) == StatesOf(a, pool'["A"], mem', live'["A"] \cup lost'["A"])
      changed == {a \in old : before(a) # after(a)}
  IN /\ old \subseteq new
     /\ Cardinality(changed) <= 1
     /\ \A a \in changed :
          \/ /\ before(a) = {"Unused"} /\ after(a) = {"Live"}
             /\ last'.op \in {"allocate", "newElement"}
             /\ a = pool["A"].currentSlot
          \/ /\ before(a) = {"Free"} /\ after(a) = {"Live"}
             /\ last'.op \in {"allocate", "newElement"}
             /\ a = pool["A"].freeSlots
          \/ /\ before(a) = {"Live"} /\ after(a) = {"Free"}
             /\ last'.op \in {"deallocate", "deleteElement"}
             /\ a = last'.arg
     /\ \A a \in new \ old :
          /\ last'.acq # NULL /\ a \in CarvedIn(last'.acq, c)
          /\ after(a) = IF a = FirstSlot(last'.acq, c) THEN {"Live"} ELSE {"Unused"}

\* C18: under the caller contract every carved slot of every block of the
\* pool is in exactly one of the states Unused, Free and Live; the free
\* list is acyclic, without duplicates, inside the pool's blocks and
\* disjoint from the unused range and from the live slots.  A slot changes
\* state only Unused -> Live (cursor bump), Free -> Live (pop) and
\* Live -> Free (push): never Unused -> Free, never back to Unused.
C18_SlotStates == []SlotStatesPartition /\ [][SlotTransitions]_vars

\* C18 witness: after a pop of the free list there are slots in all three
\* states at once.
C18_Witness ==
  /\ last.op \in {"allocate", "newElement"} /\ last.acq = NULL /\ ~last.threw
  /\ Len(FreeList("A")) >= 1
  /\ live["A"] # {}
  /\ \E a \in Carved(pool["A"], mem, cfg("A")) :
       StatesOf(a, pool["A"], mem, HandedOut) = {"Unused"}
  /\ pool["A"].currentSlot - sizeofSlot(cfg("A")) # last.ret

\* The block at b has room for a first slot: the first slot address lies
\* behind the link word, strictly below the last-slot bound, and the slot
\* ends inside the block.
FirstSlotFits(b, c) ==
  /\ b + PtrSize <= FirstSlot(b, c)
  /\ FirstSlot(b, c) < LastSlot(b, c)
  /\ FirstSlot(b, c) + sizeofSlot(c) <= b + c.BS

\* C19: with BlockSize >= 2 * sizeof(slot_type), right after every block
\* acquisition the first slot address (block + link word + padding) is
\* strictly below lastSlot (block + BlockSize - slot size + 1), the slot
\* handed out by that call is this first slot and fits in the block; the
\* same holds for every block ::operator new can return next.
C19_FirstSlotBelowLast ==
  /\ last.acq # NULL =>
       LET c == cfg(last.pool)
           P == pool[last.pool]
       IN /\ FirstSlotFits(last.acq, c)
          /\ P.currentBlock = last.acq
          /\ P.lastSlot = LastSlot(last.acq, c)
          /\ P.currentSlot = FirstSlot(last.acq, c) + sizeofSlot(c)
          /\ ~last.threw => last.ret = FirstSlot(last.acq, c)
  /\ status["A"] = "alive" =>
       \A nb \in FreeBases(heap, cfg("A").BS) : FirstSlotFits(nb, cfg("A"))

\* C19 witness: a block of exactly two slot sizes was acquired at an address
\* that needs padding, so the first slot is the last address below lastSlot.
C19_Witness ==
  /\ last.op = "allocate" /\ last.acq # NULL
  /\ cfg("A").BS = 2 * sizeofSlot(cfg("A"))
  /\ FirstSlot(last.acq, cfg("A")) > last.acq + PtrSize
  /\ FirstSlot(last.acq, cfg("A")) + 1 = LastSlot(last.acq, cfg("A"))

\* Every address handed out and every slot the pool could hand out next is a
\* multiple of alignof(slot_type), hence of alignof(T), and the cursor lies a
\* whole number of slots behind the first slot of the current block.
SlotsAligned ==
  LET c == cfg("A")
      P == pool["A"]
  IN /\ alignofSlot(c) % c.T.align = 0
     /\ Allocating => last.ret % alignofSlot(c) = 0
     /\ \A a \in HandedOut \cup Range(FreeList("A")) : a % alignofSlot(c) = 0
     /\ P.currentBlock # NULL =>
          /\ P.currentSlot % alignofSlot(c) = 0
          /\ P.currentSlot > FirstSlot(P.currentBlock, c)
          /\ (P.currentSlot - FirstSlot(P.currentBlock, c)) % sizeofSlot(c) = 0

\* A call that takes its slot from the cursor of the current block hands out
\* the address one slot size behind the one the cursor handed out before.
CursorStride ==
  (last'.op \in {"allocate", "newElement"} /\ last'.asked = 0
     /\ pool["A"].freeSlots = NULL) =>
    /\ Issued = {pool["A"].currentSlot}
    /\ pool["A"].currentSlot - sizeofSlot(cfg("A")) \in HandedOut \cup Range(FreeList("A"))
    /\ pool'["A"].currentSlot = pool["A"].currentSlot + sizeofSlot(cfg("A"))
    /\ pool'["A"].currentBlock = pool["A"].currentBlock

\* C20: every address allocate returns is a multiple of the alignment of a
\* slot, be it the first slot of a new block, a slot from the cursor or one
\* from the free list, for every block address ::operator new returns;
\* within a block the addresses the cursor hands out one after the other
\* differ by exactly one slot size.
C20_Aligned == []SlotsAligned /\ [][CursorStride]_vars

\* C20 witness: allocate returned the second slot of a block of a 16-byte
\* aligned element type, the slot last handed out from the cursor.
C20_Witness ==
  /\ last.op = "allocate" /\ ~last.threw /\ last.asked = 0
  /\ alignofSlot(cfg("A")) = 2 * PtrSize
  /\ pool["A"].freeSlots = NULL
  /\ last.ret = pool["A"].currentSlot - sizeofSlot(cfg("A"))
  /\ last.ret = FirstSlot(pool["A"].currentBlock, cfg("A")) + sizeofSlot(cfg("A"))

\* The cursors of pool A are both null exactly when the pool owns no block.
CursorsNullIffNoBlock ==
  LET P == pool["A"]
  IN /\ P.currentBlock = NULL <=> Chain("A") = <<>>
     /\ P.currentBlock = NULL <=> P.currentSlot = NULL
     /\ P.currentBlock = NULL <=> P.lastSlot = NULL

\* A call never serves the cursor when it has reached or passed lastSlot: it
\* asks for a block first, and the block acquired becomes the chain head the
\* cursors refer to; no other call changes the chain head.
CursorServedBelowBound ==
  LET P == pool["A"]
      Q == pool'["A"]
  IN /\ (last'.op \in {"allocate", "newElement"} /\ P.freeSlots = NULL
           /\ P.currentSlot >= P.lastSlot) =>
          /\ last'.asked = 1
          /\ Issued # {} => last'.acq # NULL /\ Issued = {FirstSlot(last'.acq, cfg("A"))}
     /\ (last'.op \in {"allocate", "newElement"} /\ last'.asked = 0
           /\ P.freeSlots = NULL) =>
          P.currentSlot < P.lastSlot /\ Issued = {P.currentSlot}
     /\ Q.currentBlock # P.currentBlock =>
          last'.acq # NULL /\ Q.currentBlock = last'.acq

\* C21 (as claimed): the cursors are both null, exactly when the pool owns
\* no block, or both are positions inside the block at the head of the
\* chain.
C21_CursorsInsideHead ==
  status["A"] = "alive" =>
    LET P == pool["A"]
        b == P.currentBlock
    IN /\ CursorsNullIffNoBlock
       /\ b # NULL =>
            /\ b = Head(Chain("A"))
            /\ b <= P.currentSlot /\ P.currentSlot < b + cfg("A").BS
            /\ b <= P.lastSlot /\ P.lastSlot < b + cfg("A").BS

\* The cursors of a pool that owns blocks: lastSlot lies inside the head
\* block, currentSlot lies behind its link word and at most at its end.
CursorsInHeadOrAtEnd ==
  status["A"] = "alive" =>
    LET P == pool["A"]
        b == P.currentBlock
    IN /\ CursorsNullIffNoBlock
       /\ b # NULL =>
            /\ b = Head(Chain("A"))
            /\ b + PtrSize < P.currentSlot /\ P.currentSlot <= b + cfg("A").BS
            /\ b + PtrSize < P.lastSlot /\ P.lastSlot < b + cfg("A").BS
            /\ P.currentSlot < P.lastSlot =>
                 P.currentSlot + sizeofSlot(cfg("A")) <= b + cfg("A").BS

\* C21 (amended): the cursors are both null exactly when the pool owns no
\* block; otherwise lastSlot is a position inside the block at the head of
\* the chain, the block acquired last, and currentSlot is a position inside
\* that block or the address one past its end, which it is once the last
\* slot of the block is handed out.  The cursor is never served when it has
\* reached or passed lastSlot: a block is acquired first.
C21_CursorsInHeadOrAtEnd == []CursorsInHeadOrAtEnd /\ [][CursorServedBelowBound]_vars

\* C21 witness: the pool owns two blocks and the cursor stands one past the
\* end of the head block.
C21_Witness ==
  /\ status["A"] = "alive"
  /\ Len(Chain("A")) >= 2
  /\ pool["A"].currentSlot = pool["A"].currentBlock + cfg("A").BS
  /\ last.op \in {"allocate", "newElement"}

\* The constructor of T threw inside the newElement call just made: the call
\* threw although ::operator new did not fail.
ConstructorThrew(l) ==
  l.op = "newElement" /\ l.threw /\ ~(l.asked = 1 /\ l.acq = NULL)

\* The slots lost to constructors that threw are in blocks of the pool, on
\* no free list, outside the unused range and held by no caller, and no
\* sequence of allocate calls without a new block returns one of them.
LostStayLost ==
  LET c == cfg("A")
      P == pool["A"]
      rs == AllocMany(P, mem, c, Len(FreeList("A")) + c.BS \div sizeofSlot(c) + 1)
  IN \A a \in lost["A"] :
       /\ a \in Carved(P, mem, c)
       /\ a \notin Range(FreeList("A"))
       /\ ~(P.currentSlot <= a /\ a < P.lastSlot)
       /\ a \notin live["A"]
       /\ \A i \in DOMAIN rs : ~rs[i].threw => rs[i].ret # a

\* A newElement whose constructor threw leaves the pool as allocate left it
\* and the slot with nobody; no call hands out or takes back a lost slot.
LeakOnThrow ==
  LET r == allocate(pool["A"], mem, cfg("A"), last'.acq)
  IN /\ ConstructorThrew(last') =>
          /\ ~r.threw
          /\ lost'["A"] = lost["A"] \cup {r.ret}
          /\ r.ret \notin lost["A"]
          /\ pool'["A"] = r.pool
          /\ mem' = r.mem
          /\ live' = live
          /\ last'.ret = NULL
          /\ r.ret \notin Range(FreeListOf(pool'["A"], mem'))
     /\ lost["A"] \subseteq lost'["A"]
     /\ live'["A"] \cap lost["A"] = {}

\* C22: when the constructor throws inside newElement after allocate has
\* succeeded, the slot is not released: it is neither on the free list nor
\* in the unused cursor range afterwards, no later allocate returns it, and
\* it stays so as long as the pool lives.
C22_SlotLeaksOnThrow == []LostStayLost /\ [][LeakOnThrow]_vars

\* C22 witness: after a constructor threw, a later allocate had to acquire
\* another block while the slot in the earlier block is still lost.
C22_Witness ==
  /\ lost["A"] # {}
  /\ last.op = "allocate" /\ last.acq # NULL
  /\ \E a \in lost["A"] : ~InBlock(a, last.acq, cfg("A"))
  /\ live["A"] # {}

\* Unused slots lie in the head block only; every carved slot behind the
\* cursor of the head block can be served (none is cut off by lastSlot);
\* and as long as fewer slots are handed out than are carved, allocate
\* needs no block.
NoSlotStranded ==
  LET c == cfg("A")
      P == pool["A"]
      carved == Carved(P, mem, c)
  IN /\ \A a \in carved :
          "Unused" \in StatesOf(a, P, mem, HandedOut) =>
            P.currentBlock # NULL /\ a \in CarvedIn(P.currentBlock, c)
     /\ \A b \in Range(Chain("A")) : \A a \in CarvedIn(b, c) :
          \/ a \in HandedOut
          \/ a \in Range(FreeList("A"))
          \/ b = P.currentBlock /\ P.currentSlot <= a /\ a < P.lastSlot
     /\ Allocatable(P, mem, c) = Cardinality(carved \ HandedOut)
     /\ (status["A"] = "alive" /\ Cardinality(HandedOut) < Cardinality(carved)) =>
          LET r == allocate(P, mem, c, NULL)
          IN ~r.threw /\ r.asked = 0 /\ r.ret \in carved \ HandedOut

\* A block is acquired only when the free list is empty and every carved
\* slot of every block of the pool is handed out.
AcquiresOnlyWhenFull ==
  last'.acq # NULL =>
    /\ FreeList("A") = <<>>
    /\ Carved(pool["A"], mem, cfg("A")) = HandedOut
    /\ \A a \in Carved(pool["A"], mem, cfg("A")) :
         StatesOf(a, pool["A"], mem, HandedOut) = {"Live"}

\* C23: under the caller contract a block is acquired only when every slot
\* that fits in the blocks the pool owns is Live: the free list is empty and
\* no block has an unused slot.  So unused slots exist in the head block
\* only, no fitting slot is skipped, and while fewer slots are Live than are
\* carved no block is acquired.  Live counts every slot allocate handed out
\* that was not deallocated.
C23_NoSlotStranded == []NoSlotStranded /\ [][AcquiresOnlyWhenFull]_vars

\* C23 witness: a second block was acquired when both slots of the first
\* block were handed out.
C23_Witness ==
  /\ last.op \in {"allocate", "newElement"} /\ last.acq # NULL
  /\ Len(Chain("A")) = 2
  /\ Cardinality(HandedOut) >= 3
  /\ pool["A"].freeSlots = NULL

\* C24 (as claimed): under the caller contract used() returns the number of
\* Live slots, the slots allocated and not deallocated, whatever the slot
\* size, alignment, BlockSize, number of blocks and length of the free
\* list; it returns 0 once everything allocated has been released.
C24_UsedCountsLive ==
  last.op = "used" =>
    /\ last.ret = Cardinality(HandedOut)
    /\ HandedOut = {} => last.ret = 0

\* C25: move-assigning a pool to itself does nothing: no block is released,
\* the members, the block chain, the free list and the link words are
\* unchanged, and every address issued before is still held and lies in a
\* block the pool owns.
C25_SelfMoveAssign ==
  [][ (last'.op = "moveAssign" /\ last'.pool = last'.src) =>
        LET p == last'.pool
        IN /\ last'.rel = <<>>
           /\ pool' = pool
           /\ mem' = mem
           /\ heap' = heap
           /\ ~heap'.bad
           /\ live' = live
           /\ status' = status
           /\ ChainOf(pool'[p], mem') = Chain(p)
           /\ FreeListOf(pool'[p], mem') = FreeList(p)
           /\ \A x \in live'[p] :
                \E b \in Range(ChainOf(pool'[p], mem')) :
                  b \in HeapBases' /\ InBlock(x, b, types'[ty'[p]])
    ]_vars

\* C25 witness: a pool with a block, a free slot and a held address was
\* move-assigned to itself.
C25_Witness ==
  /\ last.op = "moveAssign" /\ last.pool = last.src
  /\ pool[last.pool].currentBlock # NULL
  /\ pool[last.pool].freeSlots # NULL
  /\ live[last.pool] # {}

\* Some link word on the free list of pool p leads back into the list.
CyclicFreeList(p) ==
  \E i \in DOMAIN FreeList(p) :
    \E j \in 1..i : Load(mem, FreeList(p)[i]) = FreeList(p)[j]

WalkRunning == walk.pc # "idle"

\* No loop of available() or used() runs through its body more than 1000 times.
TraversalCutOff == walk.steps <= TraversalCap

\* The steps of available() and used() change nothing of the pool: not its
\* members, not a link word, not a block of the system allocator.
WalkReadsOnly ==
  (WalkRunning \/ WalkRunning') =>
    UNCHANGED <<variant, types, ty, status, pool, mem, heap, live, lost>>

\* C26: every available() and used() call that is entered returns, also on
\* a free list made cyclic by a double deallocate; none of its loops runs
\* more than 1000 iterations and no step of it changes the pool.
C26_DiagnosticsTerminate ==
  /\ []TraversalCutOff
  /\ [][WalkReadsOnly]_vars
  /\ (WalkRunning ~> ~WalkRunning)

\* C26 witness: available() ran on a cyclic free list, its loop was cut off
\* by the limit and the call returned 1000.
C26_Witness ==
  /\ CyclicFreeList("A")
  /\ ~WalkRunning
  /\ last.op = "available"
  /\ last.ret = TraversalCap

\* C27: calculatePadding(p, align) returns 0 for a p that is a multiple of
\* align and align - (p mod align) otherwise; the result is at least 0 and at
\* most align - 1, p plus the result is a multiple of align, and no smaller
\* number from 0 on makes it one.
C27_Padding ==
  last.op = "calculatePadding" =>
    LET p == last.arg.p
        align == last.arg.align
    IN /\ last.ret = IF p % align = 0 THEN 0 ELSE align - (p % align)
       /\ last.ret \in 0..(align - 1)
       /\ (p + last.ret) % align = 0
       /\ \A k \in 0..(last.ret - 1) : (p + k) % align # 0

\* C27 witness: a padding of more than one byte was computed for an
\* alignment that is no power of two.
C27_Witness ==
  /\ last.op = "calculatePadding"
  /\ last.arg.align = 12
  /\ last.arg.p % last.arg.align # 0
  /\ last.ret > 1

====
